---- MODULE Spec2Model ----
(***************************************************************************)
(* A model of binius/utils.py and binius/simple_binius.py: the field-      *)
(* generic polynomial toolkit, the Reed-Solomon extension, and the prover  *)
(* and verifier of the "basic small-field construction".                   *)
(*                                                                         *)
(* Python lists are 0-indexed, TLA+ sequences are 1-indexed: element i of  *)
(* a Python list is element i+1 of the sequence that models it.            *)
(***************************************************************************)
EXTENDS Integers, Sequences, FiniteSets, TLC

(***************************************************************************)
(* Program constants (simple_binius.py:1-2).                               *)
(***************************************************************************)
EXPANSION_FACTOR == 8

NUM_CHALLENGES == 4

(***************************************************************************)
(* Bounds of the model.                                                    *)
(***************************************************************************)
\* table and vector elements are 0..MaxElem and the largest field element
MaxElem == 1

\* coordinates of an evaluation point and scalars are 0..MaxCoord
MaxCoord == 2

\* evaluation tables have 0..MaxTableLen elements
MaxTableLen == 4

\* evaluation points have 0..MaxPointLen coordinates
MaxPointLen == 2

\* the hash primitive returns one of 1 + MaxHash values
MaxHash == 1

\* vectors given to extend have 1..MaxVecLen elements
MaxVecLen == 2

\* and their elements are 0..MaxVecElem
MaxVecElem == 1

\* extend is called with the expansion factors 1..MaxFactor and with
\* EXPANSION_FACTOR
MaxFactor == 2

\* compute_lagrange_poly is called with the sizes 1..MaxSize
MaxSize == 5

\* the multilinear functions are called with points of 0..MaxTensorLen
\* coordinates
MaxTensorLen == 2

(***************************************************************************)
(* The field-element class (cls).  The repository's field classes are not  *)
(* among the sources; the model uses the prime field of FieldModulus       *)
(* elements, an element being the integer 0..FieldModulus-1 that the       *)
(* class wraps.  The modulus is above 256, so that an element can need     *)
(* two bytes, and above every interpolation node the model reaches.        *)
(***************************************************************************)
FieldModulus == 257

Field == 0..(FieldModulus - 1)

\* cls(i): conversion from a Python int
Cls(i) == i % FieldModulus

FAdd(a, b) == (a + b) % FieldModulus

FSub(a, b) == (a - b) % FieldModulus

FNeg(a) == (0 - a) % FieldModulus

FMul(a, b) == (a * b) % FieldModulus

\* the inverse of every nonzero element
FInverse ==
    [b \in 1..(FieldModulus - 1) |->
        CHOOSE y \in 1..(FieldModulus - 1) : (b * y) % FieldModulus = 1]

\* a / b; division by zero raises
FDiv(a, b) ==
    IF b = 0 THEN "ZeroDivisionError"
    ELSE FMul(a, FInverse[b])

\* x.bit_length()
RECURSIVE BitLength(_)
BitLength(x) == IF x = 0 THEN 0 ELSE 1 + BitLength(x \div 2)

RECURSIVE Pow2(_)
Pow2(n) == IF n <= 0 THEN 1 ELSE 2 * Pow2(n - 1)

\* x.to_bytes(width, 'little') succeeds
FitsBytes(x, width) == BitLength(x) <= 8 * width

\* x.to_bytes(width, 'little'), for an x that fits
RECURSIVE ToBytes(_, _)
ToBytes(x, width) ==
    IF width = 0 THEN << >>
    ELSE <<x % 256>> \o ToBytes(x \div 256, width - 1)

(***************************************************************************)
(* Sequence helpers for Python's sum, slices and list comprehensions.      *)
(***************************************************************************)
\* sum([f[i] for i in 1..n], cls(0))
RECURSIVE FSum(_, _)
FSum(f, n) == IF n = 0 THEN 0 ELSE FAdd(FSum(f, n - 1), f[n])

\* s[n:]
SliceFrom(s, n) ==
    IF n >= Len(s) THEN << >> ELSE [i \in 1..(Len(s) - n) |-> s[i + n]]

\* s[:n]
SliceTo(s, n) ==
    IF n >= Len(s) THEN s ELSE [i \in 1..n |-> s[i]]

RECURSIVE Flatten(_)
Flatten(ss) == IF ss = << >> THEN << >> ELSE Head(ss) \o Flatten(Tail(ss))

\* the list a comprehension builds, every element computed once
AsList(f) == << >> \o f

Min(a, b) == IF a < b THEN a ELSE b

(***************************************************************************)
(* utils.py: the polynomial toolkit.                                       *)
(***************************************************************************)
\* eval_poly_at(poly, pt): o += coeff * power; power *= pt
RECURSIVE EvalPolyFrom(_, _, _, _, _)
EvalPolyFrom(poly, pt, i, o, power) ==
    IF i > Len(poly) THEN o
    ELSE EvalPolyFrom(poly, pt, i + 1, FAdd(o, FMul(poly[i], power)),
                      FMul(power, pt))

eval_poly_at(poly, pt) == EvalPolyFrom(poly, Cls(pt), 1, 0, 1)

\* mul_polys(a, b): o[i+j] += a[i] * b[j]
mul_polys(a, b) ==
    AsList([k \in 1..(Len(a) + Len(b) - 1) |->
               FSum([i \in 1..Len(a) |->
                        IF k + 1 - i \in 1..Len(b)
                        THEN FMul(a[i], b[k + 1 - i])
                        ELSE 0],
                    Len(a))])

\* the loop of compute_lagrange_poly over i in range(size), from i on:
\* the pair (opoly, ofactor)
RECURSIVE LagrangeLoop(_, _, _, _, _)
LagrangeLoop(size, pt, i, opoly, ofactor) ==
    IF i >= size THEN [opoly |-> opoly, ofactor |-> ofactor]
    ELSE IF Cls(i) # pt
         THEN LagrangeLoop(size, pt, i + 1,
                           mul_polys(opoly, <<FNeg(Cls(i)), 1>>),
                           FMul(ofactor, FSub(pt, Cls(i))))
         ELSE LagrangeLoop(size, pt, i + 1, opoly, ofactor)

\* the divisor of compute_lagrange_poly(size, pt)
lagrange_ofactor(size, pt) == LagrangeLoop(size, pt, 0, <<1>>, 1).ofactor

\* compute_lagrange_poly returning opoly without the division by ofactor
compute_lagrange_poly_undivided(size, pt) ==
    LagrangeLoop(size, pt, 0, <<1>>, 1).opoly

\* compute_lagrange_poly(size, pt): [x / ofactor for x in opoly]
compute_lagrange_poly(size, pt) ==
    LET r == LagrangeLoop(size, pt, 0, <<1>>, 1)
    IN  AsList([k \in 1..Len(r.opoly) |-> FDiv(r.opoly[k], r.ofactor)])

\* the factor of multilinear_poly_eval for index i: value *= coord or
\* value *= cls(1) - coord, over the coordinates from j on
RECURSIVE MultilinearTerm(_, _, _, _)
MultilinearTerm(value, pt, i, j) ==
    IF j > Len(pt) THEN value
    ELSE MultilinearTerm(
             IF (i \div Pow2(j - 1)) % 2 = 1
             THEN FMul(value, pt[j])
             ELSE FMul(value, FSub(1, pt[j])),
             pt, i, j + 1)

\* the assert of multilinear_poly_eval: len(evals) == 2 ** len(pt)
multilinear_shape_ok(evals, pt) == Len(evals) = Pow2(Len(pt))

\* multilinear_poly_eval(evals, pt); a failed assert raises
multilinear_poly_eval(evals, pt) ==
    IF ~multilinear_shape_ok(evals, pt) THEN "AssertionError"
    ELSE FSum([i \in 1..Len(evals) |->
                  MultilinearTerm(evals[i], pt, i - 1, 1)],
              Len(evals))

\* the list of Lagrange polynomials extend builds
extend_lagranges(vals) ==
    AsList([i \in 1..Len(vals) |->
               compute_lagrange_poly(Len(vals), Cls(i - 1))])

\* extend with the accumulator o starting from cls(1) instead of zero
extend_from_one(vals, expansion_factor) ==
    LET n == Len(vals)
        lagranges == extend_lagranges(vals)
    IN  AsList(
          [p \in 1..(IF expansion_factor >= 1 THEN expansion_factor * n
                     ELSE n) |->
              IF p <= n THEN vals[p]
              ELSE FAdd(1, FSum([i \in 1..n |->
                            FMul(vals[i], eval_poly_at(lagranges[i], p - 1))],
                        n))])

\* extend(vals, expansion_factor)
extend(vals, expansion_factor) ==
    LET n == Len(vals)
        lagranges == extend_lagranges(vals)
    IN  AsList(
          [p \in 1..(IF expansion_factor >= 1 THEN expansion_factor * n
                     ELSE n) |->
              IF p <= n THEN vals[p]
              ELSE FSum([i \in 1..n |->
                            FMul(vals[i], eval_poly_at(lagranges[i], p - 1))],
                        n)])

\* the loop of evaluation_tensor_product with the two halves in the other
\* order: coord * v first, then (1 - coord) * v
RECURSIVE TensorLoop_swapped(_, _, _)
TensorLoop_swapped(pt, j, o) ==
    IF j > Len(pt) THEN o
    ELSE TensorLoop_swapped(pt, j + 1,
             [v \in 1..Len(o) |-> FMul(pt[j], o[v])]
             \o [v \in 1..Len(o) |-> FMul(FSub(1, pt[j]), o[v])])

\* evaluation_tensor_product(pt), over the coordinates from j on
RECURSIVE TensorLoop(_, _, _)
TensorLoop(pt, j, o) ==
    IF j > Len(pt) THEN o
    ELSE TensorLoop(pt, j + 1,
             [v \in 1..Len(o) |-> FMul(FSub(1, pt[j]), o[v])]
             \o [v \in 1..Len(o) |-> FMul(pt[j], o[v])])

evaluation_tensor_product(pt) == TensorLoop(pt, 1, <<1>>)

(***************************************************************************)
(* The Merkle collaborator and the hash primitive (module merkle, not      *)
(* among the sources), as ideal primitives: a root binds the sequence of   *)
(* leaves it was built from, a branch opens one position, and the hash of  *)
(* root + bytes([i]) is a value nobody chooses, the same for every caller. *)
(***************************************************************************)
merkelize(leaves) == leaves

get_root(tree) == tree

get_branch(tree, index) == index

verify_branch(root, index, leaf, branch) ==
    /\ branch = index
    /\ index + 1 \in DOMAIN root
    /\ root[index + 1] = leaf

\* int.from_bytes(hash(root + bytes([i])), 'little') % extended_row_length
\* for i in range(NUM_CHALLENGES); hashes[i+1] is the hash as an integer
challenges_of(hashes, extended_row_length) ==
    [i \in 1..NUM_CHALLENGES |-> hashes[i] % extended_row_length]

(***************************************************************************)
(* simple_binius.py: the prover.                                           *)
(***************************************************************************)
\* b''.join(x.to_bytes(bytes_per_element, 'little') for x in col)
\* every x.to_bytes(bytes_per_element, 'little') of the join succeeds
can_pack_column(col, bytes_per_element) ==
    \A i \in DOMAIN col : FitsBytes(col[i], bytes_per_element)

pack_column(col, bytes_per_element) ==
    Flatten([i \in DOMAIN col |-> ToBytes(col[i], bytes_per_element)])

RECURSIVE MaxBitLength(_)
MaxBitLength(s) ==
    IF Len(s) = 1 THEN BitLength(s[1])
    ELSE LET m == MaxBitLength(Tail(s))
             h == BitLength(Head(s))
         IN  IF h > m THEN h ELSE m

\* lines 19-26: the grid; the shift by a negative count (empty table) and
\* the assert of line 22 raise
grid_of(evaluations) ==
    LET L == BitLength(Len(evaluations)) - 1
        row_length == Pow2(L \div 2)
        row_count == Pow2((L + 1) \div 2)
    IN  IF L < 0 THEN [error |-> "ValueError"]
        ELSE IF row_length * row_count # Len(evaluations)
        THEN [error |-> "AssertionError"]
        ELSE [error |-> "none", L |-> L, row_length |-> row_length,
              row_count |-> row_count,
              rows |-> [r \in 1..row_count |->
                          [j \in 1..row_length |->
                              evaluations[(r - 1) * row_length + j]]]]

\* t_prime with one entry for each row instead of each column
t_prime_of_per_row(rows, row_combination, row_count, row_length) ==
    [i \in 1..row_count |->
        FSum([j \in 1..row_length |-> FMul(rows[i][j], row_combination[i])],
             row_length)]

\* t_prime as the plain sum of the rows, row_combination left out
t_prime_of_unweighted(rows, row_combination, row_count, row_length) ==
    [j \in 1..row_length |->
        FSum([i \in 1..row_count |-> rows[i][j]], row_count)]

\* lines 35-38: t_prime, a linear combination of the rows
t_prime_of(rows, row_combination, row_count, row_length) ==
    [j \in 1..row_length |->
        FSum([i \in 1..row_count |-> FMul(rows[i][j], row_combination[i])],
             row_count)]

\* lines 45-49: the width of an element and the packed columns
prover_bytes_per_element(rows) == (MaxBitLength(Flatten(rows)) + 7) \div 8

\* simple_binius_proof, lines 15-51: everything up to the Merkle root, or
\* the exception raised
prover_commit(evaluations, evaluation_point) ==
    LET g == grid_of(evaluations)
    IN  IF g.error # "none" THEN [error |-> g.error]
        ELSE
        LET L == g.L
            rows == g.rows
            extended_rows ==
                AsList([r \in 1..g.row_count |->
                           extend(rows[r], EXPANSION_FACTOR)])
            extended_row_length == g.row_length * EXPANSION_FACTOR
            row_combination ==
                evaluation_tensor_product(SliceFrom(evaluation_point, L \div 2))
        IN  IF Len(row_combination) # g.row_count
            THEN [error |-> "AssertionError"]
            ELSE
            LET t_prime ==
                    t_prime_of(rows, row_combination, g.row_count, g.row_length)
                columns ==
                    AsList([j \in 1..extended_row_length |->
                        AsList([r \in 1..g.row_count |->
                                   extended_rows[r][j]])])
                bytes_per_element == prover_bytes_per_element(rows)
            IN  IF \E j \in 1..extended_row_length :
                       ~can_pack_column(columns[j], bytes_per_element)
                THEN [error |-> "OverflowError"]
                ELSE
                LET packed_columns ==
                        AsList([j \in 1..extended_row_length |->
                            pack_column(columns[j], bytes_per_element)])
                    merkle_tree == merkelize(packed_columns)
                IN  [error |-> "none",
                     extended_row_length |-> extended_row_length,
                     bytes_per_element |-> bytes_per_element,
                     t_prime |-> t_prime,
                     columns |-> columns,
                     merkle_tree |-> merkle_tree,
                     root |-> get_root(merkle_tree)]

\* simple_binius_proof, lines 53-65: the challenges and the proof returned,
\* the hash primitive answering hashes
prover_open(c, evaluations, evaluation_point, hashes) ==
    IF c.error # "none" THEN [error |-> c.error]
    ELSE IF ~multilinear_shape_ok(evaluations, evaluation_point)
    THEN [error |-> "AssertionError"]
    ELSE
    LET challenges == challenges_of(hashes, c.extended_row_length)
    IN  [error |-> "none",
         bytes_per_element |-> c.bytes_per_element,
         proof |->
           [root |-> c.root,
            evaluation_point |-> evaluation_point,
            eval |-> multilinear_poly_eval(evaluations, evaluation_point),
            t_prime |-> c.t_prime,
            columns |->
              [k \in 1..NUM_CHALLENGES |-> c.columns[challenges[k] + 1]],
            branches |->
              [k \in 1..NUM_CHALLENGES |->
                  get_branch(c.merkle_tree, challenges[k])]]]

\* simple_binius_proof(evaluations, evaluation_point): the proof, or the
\* exception raised
simple_binius_proof(evaluations, evaluation_point, hashes) ==
    prover_open(prover_commit(evaluations, evaluation_point),
                evaluations, evaluation_point, hashes)

(***************************************************************************)
(* simple_binius.py: the verifier.                                         *)
(***************************************************************************)
\* line 90
verifier_bytes_per_element(columns, row_count) ==
    Len(columns[1]) \div row_count

\* lines 91-95, the k-th turn of the loop over
\* zip(challenges, branches, columns)
merkle_check(root, challenge, branch, column, bytes_per_element) ==
    IF ~can_pack_column(column, bytes_per_element) THEN "OverflowError"
    ELSE IF ~verify_branch(root, challenge,
                           pack_column(column, bytes_per_element), branch)
    THEN "merkle"
    ELSE "ok"

\* the turn of lines 105-114 without the assert of line 114
column_check_no_assert(column, challenge, row_combination, row_count, extended_t_prime) ==
    IF Len(column) < row_count THEN "IndexError"
    ELSE IF challenge + 1 > Len(extended_t_prime) THEN "IndexError"
    ELSE "ok"

\* lines 105-114, one turn of the loop over zip(proof['columns'], challenges)
column_check(column, challenge, row_combination, row_count, extended_t_prime) ==
    IF Len(column) < row_count THEN "IndexError"
    ELSE IF challenge + 1 > Len(extended_t_prime) THEN "IndexError"
    ELSE IF FSum([i \in 1..row_count |->
                     FMul(column[i], row_combination[i])], row_count)
            # extended_t_prime[challenge + 1]
    THEN "column"
    ELSE "ok"

\* lines 119-125
eval_check(t_prime, col_combination, row_length, value) ==
    IF Len(t_prime) < row_length THEN "IndexError"
    ELSE IF FSum([i \in 1..row_length |->
                     FMul(t_prime[i], col_combination[i])], row_length)
            # value
    THEN "eval"
    ELSE "ok"

\* the first turn of a loop that fails, "ok" when none does
RECURSIVE FirstFailure(_, _)
FirstFailure(checks, k) ==
    IF k > Len(checks) THEN "ok"
    ELSE IF checks[k] # "ok" THEN checks[k]
    ELSE FirstFailure(checks, k + 1)

\* verify_simple_binius_proof(proof), the hash primitive answering hashes:
\* check is "ok" when the function returns True, and else names the assert
\* that failed or the exception raised
verify_simple_binius_proof(proof, hashes) ==
    LET columns == proof.columns
        evaluation_point == proof.evaluation_point
        root == proof.root
        branches == proof.branches
        L == Len(evaluation_point)
        row_length == Pow2(L \div 2)
        row_count == Pow2((L + 1) \div 2)
        extended_row_length == row_length * EXPANSION_FACTOR
        challenges == challenges_of(hashes, extended_row_length)
    IN  IF Len(columns) = 0
        THEN [check |-> "IndexError", bytes_per_element |-> -1]
        ELSE
        LET bytes_per_element == verifier_bytes_per_element(columns, row_count)
            merkle_turns ==
                Min(NUM_CHALLENGES, Min(Len(branches), Len(columns)))
            merkle ==
                FirstFailure(
                    [k \in 1..merkle_turns |->
                        merkle_check(root, challenges[k], branches[k],
                                     columns[k], bytes_per_element)], 1)
            extended_t_prime == extend(proof.t_prime, EXPANSION_FACTOR)
            row_combination ==
                evaluation_tensor_product(SliceFrom(evaluation_point, L \div 2))
            column_turns == Min(Len(columns), NUM_CHALLENGES)
            column ==
                FirstFailure(
                    [k \in 1..column_turns |->
                        column_check(columns[k], challenges[k],
                                     row_combination, row_count,
                                     extended_t_prime)], 1)
            col_combination ==
                evaluation_tensor_product(SliceTo(evaluation_point, L \div 2))
            final == eval_check(proof.t_prime, col_combination, row_length,
                                proof.eval)
        IN  [check |-> IF merkle # "ok" THEN merkle
                       ELSE IF column # "ok" THEN column
                       ELSE final,
             bytes_per_element |-> bytes_per_element]

(***************************************************************************)
(* The protocol as a state machine: the prover is called on a table and a  *)
(* point, its proof crosses the trust boundary, where it may be altered,   *)
(* and the verifier is called on what arrives.                             *)
(***************************************************************************)
VARIABLES
    pc,                \* "start", "failed", "proved", "received", "verified"
    evaluations,       \* the prover's evaluation table
    evaluation_point,  \* the prover's evaluation point
    hashes,            \* the hash of root + bytes([i]), i in range(4)
    prover,            \* what simple_binius_proof returned or raised
    proof,             \* the proof the verifier is given
    verdict,           \* what verify_simple_binius_proof returned or raised
    args,              \* the arguments of a call of a utils.py function
    ret                \* what that call returned

vars == <<pc, evaluations, evaluation_point, hashes, prover, proof, verdict,
          args, ret>>

Elems == (0..MaxElem) \cup {FieldModulus - 1}

Coords == 0..MaxCoord

SeqsUpTo(S, n) == UNION {[1..k -> S] : k \in 0..n}

Tables == SeqsUpTo(Elems, MaxTableLen)

Points == SeqsUpTo(Coords, MaxPointLen)

\* the hash as an integer: multiples of EXPANSION_FACTOR + 1, which land in
\* the original and in the extended part of a row
HashVals == {h * (EXPANSION_FACTOR + 1) : h \in 0..MaxHash}

\* the four hashes of a root, in ascending order
HashOutputs ==
    {h \in [1..NUM_CHALLENGES -> HashVals] :
        \A i \in 1..(NUM_CHALLENGES - 1) : h[i] <= h[i + 1]}

NoProof == [root |-> << >>, evaluation_point |-> << >>, eval |-> 0,
            t_prime |-> << >>, columns |-> << >>, branches |-> << >>]

NoCall == [op |-> "none"]

Init ==
    /\ pc = "start"
    /\ evaluations \in Tables
    /\ evaluation_point \in Points
    /\ hashes = << >>
    /\ prover = [error |-> "not called"]
    /\ proof = NoProof
    /\ verdict = [check |-> "not called", bytes_per_element |-> -1]
    /\ args = NoCall
    /\ ret = NoCall

\* simple_binius_proof(evaluations, evaluation_point); c is everything the
\* prover computes before it asks for the hashes
Prove ==
    /\ pc = "start"
    /\ \E c \in {prover_commit(evaluations, evaluation_point)} :
           IF c.error # "none"
           THEN /\ prover' = [error |-> c.error]
                /\ hashes' = hashes
                /\ pc' = "failed"
           ELSE \E h \in HashOutputs :
                /\ prover' = prover_open(c, evaluations, evaluation_point, h)
                /\ hashes' = h
                /\ pc' = "proved"
    /\ UNCHANGED <<evaluations, evaluation_point, proof, verdict, args, ret>>

\* the proof arrives as the prover returned it
Deliver ==
    /\ pc = "proved"
    /\ proof' = prover.proof
    /\ pc' = "received"
    /\ UNCHANGED <<evaluations, evaluation_point, hashes, prover, verdict,
                   args, ret>>

\* one entry of t_prime is replaced by another element
TamperTPrime ==
    /\ pc = "proved"
    /\ \E j \in DOMAIN prover.proof.t_prime, v \in Elems :
        /\ v # prover.proof.t_prime[j]
        /\ proof' = [prover.proof EXCEPT !.t_prime[j] = v]
    /\ pc' = "received"
    /\ UNCHANGED <<evaluations, evaluation_point, hashes, prover, verdict,
                   args, ret>>

\* t_prime gets one more entry, or loses its last one
ResizeTPrime ==
    /\ pc = "proved"
    /\ \/ \E v \in Elems :
            proof' = [prover.proof EXCEPT !.t_prime = Append(@, v)]
       \/ proof' = [prover.proof EXCEPT
                       !.t_prime = SubSeq(@, 1, Len(@) - 1)]
    /\ pc' = "received"
    /\ UNCHANGED <<evaluations, evaluation_point, hashes, prover, verdict,
                   args, ret>>

\* only the first k columns and the first m branches arrive
DropOpenings ==
    /\ pc = "proved"
    /\ \E k \in 0..NUM_CHALLENGES : \E m \in {0, k} :
        /\ k + m < 2 * NUM_CHALLENGES
        /\ proof' = [prover.proof EXCEPT
                        !.columns = SubSeq(@, 1, k),
                        !.branches = SubSeq(@, 1, m)]
    /\ pc' = "received"
    /\ UNCHANGED <<evaluations, evaluation_point, hashes, prover, verdict,
                   args, ret>>

\* verify_simple_binius_proof(proof)
Verify ==
    /\ pc = "received"
    /\ verdict' = verify_simple_binius_proof(proof, hashes)
    /\ pc' = "verified"
    /\ UNCHANGED <<evaluations, evaluation_point, hashes, prover, proof,
                   args, ret>>

Next ==
    \/ Prove
    \/ Deliver
    \/ TamperTPrime
    \/ ResizeTPrime
    \/ DropOpenings
    \/ Verify

Spec == Init /\ [][Next]_vars

\* the prover alone
NextProver == Prove

SpecProver == Init /\ [][NextProver]_vars

\* the protocol with t_prime as the only field that is altered
NextTamper ==
    \/ Prove
    \/ Deliver
    \/ TamperTPrime
    \/ Verify

SpecTamper == Init /\ [][NextTamper]_vars

(***************************************************************************)
(* The functions of utils.py called on their own: pc is "call" with the    *)
(* arguments in args, then "returned" with the results in ret.             *)
(***************************************************************************)
Factors == (1..MaxFactor) \cup {EXPANSION_FACTOR}

\* c1 * a + c2 * b, elementwise
LinearCombination(c1, a, c2, b) ==
    [i \in 1..Len(a) |-> FAdd(FMul(c1, a[i]), FMul(c2, b[i]))]

ExtendCalls ==
    UNION {[op : {"extend"}, a : [1..n -> 0..MaxVecElem],
            b : [1..n -> 0..MaxVecElem], c1 : Elems, c2 : Elems,
            factor : Factors] : n \in 1..MaxVecLen}

LagrangeCalls ==
    UNION {[op : {"lagrange"}, size : {size}, pt : 0..(size - 1)] :
              size \in 1..MaxSize}

\* the table with 1 at position i (counted from 0) and 0 elsewhere
UnitTable(k, i) == [x \in 1..Pow2(k) |-> IF x = i + 1 THEN 1 ELSE 0]

\* tables whose entries are 0 or one nonzero element
TwoValuedTables(k) ==
    {[x \in 1..Pow2(k) |-> FMul(s, bits[x])] :
        bits \in [1..Pow2(k) -> {0, 1}], s \in Elems \ {0}}

MultilinearCalls ==
    UNION {[op : {"multilinear"}, evals : TwoValuedTables(k),
            pt : [1..k -> Coords]] : k \in 0..MaxTensorLen}

InitAlg ==
    /\ pc = "call"
    /\ args \in ExtendCalls \cup LagrangeCalls \cup MultilinearCalls
    /\ ret = NoCall
    /\ evaluations = << >>
    /\ evaluation_point = << >>
    /\ hashes = << >>
    /\ prover = [error |-> "not called"]
    /\ proof = NoProof
    /\ verdict = [check |-> "not called", bytes_per_element |-> -1]

Protocol == <<evaluations, evaluation_point, hashes, prover, proof, verdict>>

\* extend on a linear combination and on its two vectors
CallExtend ==
    /\ pc = "call"
    /\ args.op = "extend"
    /\ ret' = [op |-> "extend",
               of_combination |->
                   extend(LinearCombination(args.c1, args.a, args.c2, args.b),
                          args.factor),
               of_a |-> extend(args.a, args.factor),
               of_b |-> extend(args.b, args.factor)]
    /\ pc' = "returned"
    /\ UNCHANGED <<args, Protocol>>

\* compute_lagrange_poly(size, cls(pt))
CallLagrange ==
    /\ pc = "call"
    /\ args.op = "lagrange"
    /\ ret' = [op |-> "lagrange",
               ofactor |-> lagrange_ofactor(args.size, Cls(args.pt)),
               poly |-> compute_lagrange_poly(args.size, Cls(args.pt))]
    /\ pc' = "returned"
    /\ UNCHANGED <<args, Protocol>>

\* multilinear_poly_eval(evals, pt) and evaluation_tensor_product(pt)
CallMultilinear ==
    /\ pc = "call"
    /\ args.op = "multilinear"
    /\ ret' = [op |-> "multilinear",
               eval |-> multilinear_poly_eval(args.evals, args.pt),
               tensor |-> evaluation_tensor_product(args.pt)]
    /\ pc' = "returned"
    /\ UNCHANGED <<args, Protocol>>

NextAlg ==
    \/ CallExtend
    \/ CallLagrange
    \/ CallMultilinear

SpecAlg == InitAlg /\ [][NextAlg]_vars

(***************************************************************************)
(* The properties checked.                                                 *)
(***************************************************************************)
Accepted == pc = "verified" /\ verdict.check = "ok"

\* the verifier was given the proof exactly as the prover returned it
HonestProof == pc = "verified" /\ proof = prover.proof

\* the verifier was given the prover's proof with another t_prime of the
\* same length and nothing else changed
TPrimeTampered ==
    /\ pc = "verified"
    /\ proof # prover.proof
    /\ Len(proof.t_prime) = Len(prover.proof.t_prime)
    /\ proof = [prover.proof EXCEPT !.t_prime = proof.t_prime]

\* what the verifier computes from the point of the proof it was given
VRowLength == 2 ^ (Len(proof.evaluation_point) \div 2)

VRowCount == 2 ^ ((Len(proof.evaluation_point) + 1) \div 2)

VChallenges == challenges_of(hashes, VRowLength * EXPANSION_FACTOR)

VRowCombination ==
    evaluation_tensor_product(
        SliceFrom(proof.evaluation_point, Len(proof.evaluation_point) \div 2))

\* C1: the verifier accepts the proof the prover returned for a table of
\* length 2^L and a point of length L, and the proof's eval is
\* multilinear_poly_eval(table, point).
C1_RoundTripAccepts ==
    HonestProof =>
        /\ verdict.check = "ok"
        /\ proof.eval = multilinear_poly_eval(evaluations, evaluation_point)

C3_AcceptedOnlyIfAllChallengesPass ==
    Accepted =>
        /\ Len(proof.columns) >= NUM_CHALLENGES
        /\ Len(proof.branches) >= NUM_CHALLENGES
        /\ \A k \in 1..NUM_CHALLENGES :
            /\ merkle_check(proof.root, VChallenges[k], proof.branches[k],
                            proof.columns[k], verdict.bytes_per_element)
                   = "ok"
            /\ column_check(proof.columns[k], VChallenges[k],
                            VRowCombination, VRowCount,
                            extend(proof.t_prime, EXPANSION_FACTOR)) = "ok"

\* C4: on the prover's own proof the verifier packs with the prover's
\* bytes_per_element, and its packed column for each challenge c is the leaf
\* the prover committed at index c.
C4_SameSerialization ==
    HonestProof =>
        /\ verdict.bytes_per_element = prover.bytes_per_element
        /\ \A k \in 1..NUM_CHALLENGES :
            /\ can_pack_column(proof.columns[k], verdict.bytes_per_element)
            /\ pack_column(proof.columns[k], verdict.bytes_per_element)
                   = proof.root[VChallenges[k] + 1]

\* C5: extend(c1*a + c2*b, k) has k*N entries and equals
\* c1*extend(a, k) + c2*extend(b, k) at every one of them.
C5_ExtendIsLinear ==
    (pc = "returned" /\ ret.op = "extend") =>
        /\ Len(ret.of_combination) = args.factor * Len(args.a)
        /\ Len(ret.of_a) = args.factor * Len(args.a)
        /\ Len(ret.of_b) = args.factor * Len(args.a)
        /\ \A p \in 1..(args.factor * Len(args.a)) :
              ret.of_combination[p]
                  = FAdd(FMul(args.c1, ret.of_a[p]), FMul(args.c2, ret.of_b[p]))

\* two vectors of two elements, both scalars above zero, extended eightfold
\* to a combination that is not constant
C5_Witness ==
    /\ pc = "returned"
    /\ ret.op = "extend"
    /\ args.factor = EXPANSION_FACTOR
    /\ Len(args.a) = 2
    /\ args.a # args.b
    /\ args.c1 = 1
    /\ args.c2 = FieldModulus - 1
    /\ ret.of_combination[2 * EXPANSION_FACTOR] > 1

\* C6: multilinear_poly_eval(table, p) is the sum over i of
\* table[i] * evaluation_tensor_product(p)[i]; the tensor product has 2^k
\* entries, and entry i is multilinear_poly_eval(e_i, p).
C6_TensorIdentity ==
    (pc = "returned" /\ ret.op = "multilinear") =>
        /\ Len(ret.tensor) = 2 ^ Len(args.pt)
        /\ ret.eval
               = FSum([i \in 1..Len(args.evals) |->
                          FMul(args.evals[i], ret.tensor[i])],
                      Len(args.evals))
        /\ \A i \in 0..(Len(ret.tensor) - 1) :
              ret.tensor[i + 1]
                  = multilinear_poly_eval(UnitTable(Len(args.pt), i), args.pt)

\* a table of four entries, two of them zero, at a point off the hypercube
C6_Witness ==
    /\ pc = "returned"
    /\ ret.op = "multilinear"
    /\ args.pt = <<2, 1>>
    /\ args.evals = <<0, FieldModulus - 1, 0, FieldModulus - 1>>
    /\ ret.eval = FMul(FieldModulus - 1, 2)

\* C7: simple_binius_proof raises whenever len(table) # 2^len(point), and
\* what it returns is a complete proof of a table with
\* len(table) = 2^len(point).
C7_ShapeErrorsAreFatal ==
    /\ (pc # "start" /\ Len(evaluations) # 2 ^ Len(evaluation_point))
           => (pc = "failed"
               /\ prover.error \in {"ValueError", "AssertionError"})
    /\ pc = "failed" => DOMAIN prover = {"error"}
    /\ pc = "proved" =>
        /\ Len(evaluations) = 2 ^ Len(evaluation_point)
        /\ prover.error = "none"
        /\ DOMAIN prover.proof
               = {"root", "evaluation_point", "eval", "t_prime", "columns",
                  "branches"}
        /\ prover.proof.evaluation_point = evaluation_point
        /\ Len(prover.proof.root)
               = EXPANSION_FACTOR * 2 ^ (Len(evaluation_point) \div 2)
        /\ Len(prover.proof.t_prime) = 2 ^ (Len(evaluation_point) \div 2)
        /\ Len(prover.proof.columns) = NUM_CHALLENGES
        /\ Len(prover.proof.branches) = NUM_CHALLENGES
        /\ \A k \in 1..NUM_CHALLENGES :
              Len(prover.proof.columns[k])
                  = 2 ^ ((Len(evaluation_point) + 1) \div 2)

\* a table of four entries with a point of one coordinate: the length is a
\* power of two and only the point is too short
C7_Witness ==
    /\ pc = "failed"
    /\ Len(evaluations) = 4
    /\ Len(evaluation_point) = 1
    /\ prover.error = "AssertionError"

\* C8: compute_lagrange_poly(size, pt), pt a node in 0..size-1, has size
\* coefficients, evaluates to 1 at pt and to 0 at every other node, and
\* its divisor is not zero.
C8_LagrangeBasis ==
    (pc = "returned" /\ ret.op = "lagrange") =>
        /\ ret.ofactor # 0
        /\ Len(ret.poly) = args.size
        /\ \A x \in 0..(args.size - 1) :
              eval_poly_at(ret.poly, x) = IF x = args.pt THEN 1 ELSE 0

\* the polynomial of four nodes for an inner node, whose divisor is neither
\* 1 nor -1
C8_Witness ==
    /\ pc = "returned"
    /\ ret.op = "lagrange"
    /\ args.size = 4
    /\ args.pt = 1
    /\ ret.ofactor = 2
    /\ Len(ret.poly) = 4

\* C9: the prover's t_prime has row_length = 2^floor(L/2) entries, the
\* columns have row_count = 2^ceil(L/2), and the combination of t_prime with
\* evaluation_tensor_product(point[:L//2]) is
\* multilinear_poly_eval(table, point).
C9_RowColumnDecomposition ==
    pc = "proved" =>
        LET L == Len(evaluation_point)
            t_prime == prover.proof.t_prime
            col_combination ==
                evaluation_tensor_product(SliceTo(evaluation_point, L \div 2))
        IN  /\ Len(t_prime) = 2 ^ (L \div 2)
            /\ \A k \in 1..NUM_CHALLENGES :
                  Len(prover.proof.columns[k]) = 2 ^ ((L + 1) \div 2)
            /\ FSum([j \in 1..Len(t_prime) |->
                        FMul(t_prime[j], col_combination[j])], Len(t_prime))
                   = multilinear_poly_eval(evaluations, evaluation_point)

\* a proof for four entries at a point off the hypercube, both entries of
\* t_prime above 1
C9_Witness ==
    /\ pc = "proved"
    /\ Len(evaluation_point) = 2
    /\ evaluation_point[1] = 2
    /\ evaluation_point[2] = 2
    /\ prover.proof.t_prime[1] > 1
    /\ prover.proof.t_prime[2] > 1
    /\ prover.proof.eval > 1

\* C10: an accepted proof has a t_prime of row_length entries.
C10_TPrimeLengthEnforced ==
    Accepted => Len(proof.t_prime) = VRowLength

====
